---- MODULE Spec2Model ----
(***************************************************************************)
(* MXSEC demo API (src/api/main.py): a FastAPI facade over three module    *)
(* level fixtures, FAKE_USER, FAKE_WEBSITES and FAKE_ALERTS.               *)
(*                                                                         *)
(* State: the three fixtures (module globals, built once at import) and,  *)
(* per serving thread, the last request it handled with the response it   *)
(* produced.  One action per route handler; an action is the whole        *)
(* request: parameter validation declared in the signature, the handler   *)
(* body and the response.                                                 *)
(*                                                                         *)
(* Time is counted in minutes since the first datetime.utcnow() reading   *)
(* of the import; the later readings of the same import may be later by   *)
(* up to MaxSkew minutes in total.                                         *)
(***************************************************************************)
EXTENDS Integers, Sequences, FiniteSets

VARIABLES FAKE_USER, FAKE_WEBSITES, FAKE_ALERTS, worker

vars == <<FAKE_USER, FAKE_WEBSITES, FAKE_ALERTS, worker>>

fixtures == <<FAKE_USER, FAKE_WEBSITES, FAKE_ALERTS>>

---------------------------------------------------------------------------
(* Bounds of the model *)

\* largest |limit| a request carries (the fixture holds 4 alerts)
MaxLimit == 5

\* largest total drift, in minutes, of the clock over the import
MaxSkew == 1

\* the serving threads; two of them observe every pair of calls
Workers == {"t1", "t2"}

---------------------------------------------------------------------------
(* Helpers *)

Min(a, b) == IF a < b THEN a ELSE b

Max(a, b) == IF a > b THEN a ELSE b

\* An optional value: <<>> when there is none (None, or a query parameter
\* the request does not carry), <<v>> when it is v
Absent == <<>>

\* str.lower() on the domains the requests of the model use
Lower(d) ==
    CASE d = "EXAMPLE.DE" -> "example.de"
      [] d = "Example.De" -> "example.de"
      [] OTHER -> d

\* The result of a failed EmailStr validation
InvalidEmail == [local |-> "", domain |-> ""]

\* pydantic's EmailStr without the normalisation (raw text kept as sent)
EmailStrKeepRaw(raw) ==
    IF raw.local = "" \/ raw.domain = ""
    THEN InvalidEmail
    ELSE [local |-> raw.local, domain |-> raw.domain]

\* pydantic's EmailStr: the text local@domain is rejected when a part is
\* missing, otherwise the value the model holds is the normalised address:
\* the local part as sent, the domain in lower case.
EmailStr(raw) ==
    IF raw.local = "" \/ raw.domain = ""
    THEN InvalidEmail
    ELSE [local |-> raw.local, domain |-> Lower(raw.domain)]

\* s[:stop] that drops nothing
PySliceWhole(s, stop) == s

\* s[:stop + 1]
PySliceOffByOne(s, stop) ==
    LET n == Len(s)
        k == IF stop + 1 < 0 THEN Max(n + stop + 1, 0) ELSE Min(stop + 1, n)
    IN  SubSeq(s, 1, k)

\* s[stop:] for a negative stop, s[:stop] otherwise
PySliceTail(s, stop) ==
    LET n == Len(s)
    IN  IF stop < 0 THEN SubSeq(s, Max(n + stop, 0) + 1, n)
                    ELSE SubSeq(s, 1, Min(stop, n))

\* s[:max(stop, 0)]
PySliceClampZero(s, stop) == SubSeq(s, 1, Min(Max(stop, 0), Len(s)))

\* Python's s[:stop] on a list: a negative stop counts from the end, and
\* the bound is clamped to 0..len(s)
PySlice(s, stop) ==
    LET n == Len(s)
        k == IF stop < 0 THEN Max(n + stop, 0) ELSE Min(stop, n)
    IN  SubSeq(s, 1, k)

---------------------------------------------------------------------------
(* Fixtures *)

\* the utcnow() readings of the import, in source order: four for
\* FAKE_WEBSITES, then four for FAKE_ALERTS
ClockReadings ==
    {r \in [1..8 -> 0..MaxSkew] :
        /\ r[1] = 0
        /\ \A i \in 1..7 : r[i] <= r[i + 1]}

FakeUser ==
    [id |-> "u_123",
     email |-> EmailStr([local |-> "mxdev", domain |-> "example.de"]),
     plan |-> "pro"]

FakeWebsites(r) ==
    << [id |-> "w_1", domain |-> "mxdev.de", status |-> "online",
        last_score |-> <<93>>, last_scan_at |-> <<r[1] - 20>>, risk_level |-> <<"low">>],
       [id |-> "w_2", domain |-> "shop.mxdev.de", status |-> "online",
        last_score |-> <<81>>, last_scan_at |-> <<r[2] - 90>>, risk_level |-> <<"medium">>],
       [id |-> "w_3", domain |-> "demo.mxsec.app", status |-> "reachable",
        last_score |-> <<67>>, last_scan_at |-> <<r[3] - 720>>, risk_level |-> <<"high">>],
       [id |-> "w_4", domain |-> "kundenprojekt.de", status |-> "ssl_error",
        last_score |-> <<54>>, last_scan_at |-> <<r[4] - 1440>>,
        risk_level |-> <<"critical">>] >>

\* FAKE_ALERTS with the second and third entry exchanged
FakeAlertsSwapped(r) ==
    << [id |-> "a_1", type |-> "cve", severity |-> "critical",
        message |-> "Kritische Schwachstelle gefunden",
        target_type |-> "website", target_label |-> "kundenprojekt.de",
        created_at |-> r[5] - 5, tag |-> "CVE"],
       [id |-> "a_3", type |-> "info", severity |-> "info",
        message |-> "Neue Domain hinzugefuegt",
        target_type |-> "website", target_label |-> "demo.mxsec.app",
        created_at |-> r[6] - 34, tag |-> "Info"],
       [id |-> "a_2", type |-> "ssh", severity |-> "warn",
        message |-> "Mehrere fehlerhafte SSH Logins",
        target_type |-> "server", target_label |-> "mc-prod-01",
        created_at |-> r[7] - 12, tag |-> "SSH"],
       [id |-> "a_4", type |-> "autofix", severity |-> "info",
        message |-> "AutoFix angewendet (Firewall)",
        target_type |-> "server", target_label |-> "mc-prod-01",
        created_at |-> r[8] - 60, tag |-> "AutoFix"] >>

FakeAlerts(r) ==
    << [id |-> "a_1", type |-> "cve", severity |-> "critical",
        message |-> "Kritische Schwachstelle gefunden",
        target_type |-> "website", target_label |-> "kundenprojekt.de",
        created_at |-> r[5] - 5, tag |-> "CVE"],
       [id |-> "a_2", type |-> "ssh", severity |-> "warn",
        message |-> "Mehrere fehlerhafte SSH Logins",
        target_type |-> "server", target_label |-> "mc-prod-01",
        created_at |-> r[6] - 12, tag |-> "SSH"],
       [id |-> "a_3", type |-> "info", severity |-> "info",
        message |-> "Neue Domain hinzugefuegt",
        target_type |-> "website", target_label |-> "demo.mxsec.app",
        created_at |-> r[7] - 34, tag |-> "Info"],
       [id |-> "a_4", type |-> "autofix", severity |-> "info",
        message |-> "AutoFix angewendet (Firewall)",
        target_type |-> "server", target_label |-> "mc-prod-01",
        created_at |-> r[8] - 60, tag |-> "AutoFix"] >>

---------------------------------------------------------------------------
(* Requests and responses *)

\* the email texts a login request carries, as local part and domain;
\* an empty part stands for a text that is no address
RawEmails ==
    { [local |-> "mxdev", domain |-> "example.de"],
      [local |-> "mxdev", domain |-> "EXAMPLE.DE"],
      [local |-> "MXDEV", domain |-> "example.de"],
      [local |-> "wrong", domain |-> "x.com"],
      [local |-> "mxdev", domain |-> ""] }

Passwords == {"", "anything"}

Limits == (-MaxLimit)..MaxLimit

Queries == {<<n>> : n \in Limits} \cup {Absent}

\* what a thread that has served nothing yet holds
Idle == [req |-> [op |-> "none"], resp |-> [status |-> 0]]

\* HTTPException(status_code=401, detail=...)
Unauthorized == [status |-> 401, detail |-> "Ungueltige Zugangsdaten"]

\* the framework's answer to a request that fails validation
ValidationError == [status |-> 422, detail |-> "validation error"]

Ok(body) == [status |-> 200, body |-> body]

Served(w, req, resp) ==
    worker' = [worker EXCEPT ![w] = [req |-> req, resp |-> resp]]

---------------------------------------------------------------------------
(* Initial state: the module has been imported *)

Init ==
    /\ \E r \in ClockReadings :
          /\ FAKE_WEBSITES = FakeWebsites(r)
          /\ FAKE_ALERTS = FakeAlerts(r)
    /\ FAKE_USER = FakeUser
    /\ worker = [w \in Workers |-> Idle]

---------------------------------------------------------------------------
(* Route handlers *)

\* login that also refuses an empty password
login_checks_password(w, payload) ==
    LET email == EmailStr(payload.email)
        req == [op |-> "login", email |-> payload.email,
                password |-> payload.password]
    IN  /\ Served(w, req,
                  IF email = InvalidEmail THEN ValidationError
                  ELSE IF email # FAKE_USER.email \/ payload.password = ""
                       THEN Unauthorized
                       ELSE Ok(FAKE_USER))
        /\ UNCHANGED fixtures

\* POST /api/v1/auth/login: the body is validated as a LoginRequest, then
\* the validated email is compared with FAKE_USER.email
login(w, payload) ==
    LET email == EmailStr(payload.email)
        req == [op |-> "login", email |-> payload.email,
                password |-> payload.password]
    IN  /\ Served(w, req,
                  IF email = InvalidEmail THEN ValidationError
                  ELSE IF email # FAKE_USER.email THEN Unauthorized
                       ELSE Ok(FAKE_USER))
        /\ UNCHANGED fixtures

\* get_me that answers only once some thread holds a successful login
get_me_needs_session(w) ==
    /\ Served(w, [op |-> "get_me"],
              IF \E v \in Workers : /\ worker[v].req.op = "login"
                                    /\ worker[v].resp.status = 200
              THEN Ok(FAKE_USER)
              ELSE Unauthorized)
    /\ UNCHANGED fixtures

\* GET /api/v1/auth/me
get_me(w) ==
    /\ Served(w, [op |-> "get_me"], Ok(FAKE_USER))
    /\ UNCHANGED fixtures

\* GET /api/v1/overview; uptime_percent 99.96 is held in hundredths
get_overview(w) ==
    /\ Served(w, [op |-> "get_overview"],
              Ok([overall_score |-> 89,
                  score_change |-> 4,
                  attacks_last_24h |-> 432,
                  attacks_change_percent |-> 18,
                  uptime_percent_x100 |-> 9996,
                  uptime_note |->
                      "1 kurzer Ausfall bei shop.mxdev.de (3 Minuten).",
                  targets_total |-> 4,
                  targets_note |->
                      "3 Websites, 1 Server. Grenze deines Pro-Plans."]))
    /\ UNCHANGED fixtures

\* list_websites that reverses the list in place before returning it
list_websites_reversing(w) ==
    LET n == Len(FAKE_WEBSITES)
        rev == [i \in 1..n |-> FAKE_WEBSITES[n + 1 - i]]
    IN  /\ FAKE_WEBSITES' = rev
        /\ Served(w, [op |-> "list_websites"], Ok(rev))
        /\ UNCHANGED <<FAKE_USER, FAKE_ALERTS>>

\* GET /api/v1/websites
list_websites(w) ==
    /\ Served(w, [op |-> "list_websites"], Ok(FAKE_WEBSITES))
    /\ UNCHANGED fixtures

\* the default of the limit query parameter
DefaultLimit == 10

\* the limit the handler of a list_alerts request runs with
LimitOf(q) == IF q = Absent THEN DefaultLimit ELSE q[1]

\* list_alerts that cuts FAKE_ALERTS itself down to the slice (del s[limit:])
list_alerts_truncating(w, q) ==
    LET limit == LimitOf(q)
    IN  /\ FAKE_ALERTS' = PySlice(FAKE_ALERTS, limit)
        /\ Served(w, [op |-> "list_alerts", limit |-> q],
                  Ok(PySlice(FAKE_ALERTS, limit)))
        /\ UNCHANGED <<FAKE_USER, FAKE_WEBSITES>>

\* GET /api/v1/alerts?limit=q
list_alerts(w, q) ==
    LET limit == LimitOf(q)
    IN  /\ Served(w, [op |-> "list_alerts", limit |-> q],
                  Ok(PySlice(FAKE_ALERTS, limit)))
        /\ UNCHANGED fixtures

\* GET /
root(w) ==
    /\ Served(w, [op |-> "root"],
              Ok([status |-> "ok", service |-> "mxsec-api"]))
    /\ UNCHANGED fixtures

Next ==
    \E w \in Workers :
        \/ \E e \in RawEmails, p \in Passwords :
               login(w, [email |-> e, password |-> p])
        \/ get_me(w)
        \/ get_overview(w)
        \/ list_websites(w)
        \/ \E q \in Queries : list_alerts(w, q)
        \/ root(w)

Spec == Init /\ [][Next]_vars

---------------------------------------------------------------------------
(* Vocabulary of the properties *)

\* the number of stored alerts
N == Len(FAKE_ALERTS)

Called(w, op) == worker[w].req.op = op

\* the limit a served list_alerts request ran with, and what it returned
LimitAt(w) == LimitOf(worker[w].req.limit)

BodyAt(w) == worker[w].resp.body

IsPrefix(a, b) == Len(a) <= Len(b) /\ a = SubSeq(b, 1, Len(a))

\* the address of the configured account, as the text a client sends
ConfiguredEmail == [local |-> "mxdev", domain |-> "example.de"]

WellFormed(raw) == raw.local # "" /\ raw.domain # ""

---------------------------------------------------------------------------
(* C1: for every limit >= 0, zero and limits above N included,            *)
(* ListAlerts(limit) answers 200 with exactly min(limit, N) alerts, which  *)
(* are the first min(limit, N) stored alerts in display order, and so a    *)
(* prefix of what ListAlerts(N) returns.                                   *)
C1_NonNegativeLimitIsPrefix ==
    \A w \in Workers :
        (Called(w, "list_alerts") /\ LimitAt(w) >= 0) =>
            /\ worker[w].resp.status = 200
            /\ Len(BodyAt(w)) = Min(LimitAt(w), N)
            /\ BodyAt(w) = SubSeq(FAKE_ALERTS, 1, Min(LimitAt(w), N))
            /\ \A v \in Workers :
                   (Called(v, "list_alerts") /\ LimitAt(v) = N) =>
                       IsPrefix(BodyAt(w), BodyAt(v))

C1_Witness ==
    \E w, v \in Workers :
        /\ Called(w, "list_alerts") /\ LimitAt(w) > N /\ Len(BodyAt(w)) = N
        /\ Called(v, "list_alerts") /\ LimitAt(v) = 0 /\ BodyAt(v) = <<>>

(* C2 as stated: Authenticate returns the static User if and only if the  *)
(* email sent is exactly the configured email, and fails with 401 in       *)
(* every other case.                                                       *)
C2_ExactMatchOnly ==
    \A w \in Workers :
        Called(w, "login") =>
            IF worker[w].req.email = ConfiguredEmail
            THEN worker[w].resp = Ok(FAKE_USER)
            ELSE worker[w].resp = Unauthorized

(* C2 amended: for every well-formed email and every password,            *)
(* Authenticate returns the static User if and only if the email, with    *)
(* its domain part put in lower case, equals the configured email, and    *)
(* fails with 401 otherwise; an email that is not well formed is rejected *)
(* with the validation error 422 and returns no User.                     *)
C2_NormalisedMatchOnly ==
    \A w \in Workers :
        Called(w, "login") =>
            LET raw == worker[w].req.email IN
            IF ~WellFormed(raw)
            THEN worker[w].resp = ValidationError
            ELSE IF /\ raw.local = ConfiguredEmail.local
                    /\ Lower(raw.domain) = ConfiguredEmail.domain
                 THEN worker[w].resp = Ok(FAKE_USER)
                 ELSE worker[w].resp = Unauthorized

C2_Witness ==
    \E w, v \in Workers :
        /\ Called(w, "login")
        /\ worker[w].req.email # ConfiguredEmail
        /\ worker[w].resp.status = 200
        /\ Called(v, "login")
        /\ worker[v].resp.status = 401

(* C3: the outcome of Authenticate does not depend on the password: two   *)
(* logins with the same email produce the same outcome whatever their     *)
(* passwords, the empty one included.                                     *)
C3_PasswordNotInspected ==
    \A w, v \in Workers :
        (/\ Called(w, "login") /\ Called(v, "login")
         /\ worker[w].req.email = worker[v].req.email) =>
            worker[w].resp = worker[v].resp

C3_Witness ==
    \E w, v \in Workers :
        /\ Called(w, "login") /\ Called(v, "login")
        /\ worker[w].req.email = ConfiguredEmail
        /\ worker[v].req.email = ConfiguredEmail
        /\ worker[w].req.password = ""
        /\ worker[v].req.password # ""
        /\ worker[v].resp.status = 200

(* C4 as stated: for every integer limit, GET /api/v1/alerts answers 200  *)
(* with at most limit alerts.                                              *)
C4_AtMostLimitForEveryInteger ==
    \A w \in Workers :
        Called(w, "list_alerts") =>
            /\ worker[w].resp.status = 200
            /\ Len(BodyAt(w)) <= LimitAt(w)

(* C4 amended: for every integer limit, GET /api/v1/alerts answers 200;   *)
(* the sequence has at most limit alerts when limit >= 0, and             *)
(* max(0, N + limit) alerts when limit < 0.                                *)
C4_AtMostLimitWhenNonNegative ==
    \A w \in Workers :
        Called(w, "list_alerts") =>
            /\ worker[w].resp.status = 200
            /\ LimitAt(w) >= 0 => Len(BodyAt(w)) <= LimitAt(w)
            /\ LimitAt(w) < 0 => Len(BodyAt(w)) = Max(0, N + LimitAt(w))

C4_Witness ==
    \E w, v \in Workers :
        /\ Called(w, "list_alerts") /\ LimitAt(w) < 0 /\ Len(BodyAt(w)) > 0
        /\ Called(v, "list_alerts") /\ LimitAt(v) \in 1..(N - 1)
        /\ Len(BodyAt(v)) = LimitAt(v)

(* C5: no operation creates, changes or deletes an entity: every step     *)
(* leaves the user, the websites and the alerts as they were, so the      *)
(* fixture keeps its one user, four websites and four alerts.             *)
C5_FixturesNeverChange ==
    /\ [](/\ FAKE_USER = FakeUser
          /\ Len(FAKE_WEBSITES) = 4
          /\ Len(FAKE_ALERTS) = 4)
    /\ [][fixtures' = fixtures]_vars

C5_Witness ==
    \E w, v \in Workers :
        /\ Called(w, "login") /\ worker[w].resp.status = 401
        /\ Called(v, "list_alerts") /\ LimitAt(v) < 0

(* C6: every operation is stateless and idempotent: two calls of the same *)
(* operation with the same input hold identical responses, whatever was   *)
(* served before or between them.                                         *)
C6_SameInputSameResponse ==
    \A w, v \in Workers :
        (/\ ~Called(w, "none")
         /\ worker[w].req.op = worker[v].req.op
         /\ worker[w].req = worker[v].req) =>
            worker[w].resp = worker[v].resp

C6_Witness ==
    \E w, v \in Workers :
        /\ w # v
        /\ Called(w, "list_websites") /\ Called(v, "list_websites")
        /\ Len(BodyAt(w)) = 4

(* C7: GetCurrentUser never fails and returns the static User, and that   *)
(* payload is the one Authenticate returns for the configured email with  *)
(* any password.                                                          *)
C7_MeEqualsLogin ==
    \A w \in Workers :
        Called(w, "get_me") =>
            /\ worker[w].resp.status = 200
            /\ BodyAt(w) = FAKE_USER
            /\ \A v \in Workers :
                   (/\ Called(v, "login")
                    /\ worker[v].req.email = ConfiguredEmail) =>
                       worker[v].resp = worker[w].resp

C7_Witness ==
    \E w, v \in Workers :
        /\ Called(w, "get_me")
        /\ Called(v, "login")
        /\ worker[v].req.email = ConfiguredEmail
        /\ worker[v].req.password = ""

(* C8: in every reachable state the identifiers are unique among the      *)
(* websites and among the alerts, every website has last_score and        *)
(* risk_level both present or both absent, and the alerts' created_at     *)
(* values decrease along the display order (newest first).                *)
C8_FixtureInvariants ==
    /\ \A i, j \in 1..Len(FAKE_WEBSITES) :
           FAKE_WEBSITES[i].id = FAKE_WEBSITES[j].id => i = j
    /\ \A i, j \in 1..Len(FAKE_ALERTS) :
           FAKE_ALERTS[i].id = FAKE_ALERTS[j].id => i = j
    /\ \A i \in 1..Len(FAKE_WEBSITES) :
           (FAKE_WEBSITES[i].last_score = Absent)
               <=> (FAKE_WEBSITES[i].risk_level = Absent)
    /\ \A i, j \in 1..Len(FAKE_ALERTS) :
           i < j => FAKE_ALERTS[i].created_at > FAKE_ALERTS[j].created_at

C8_Witness ==
    /\ \E w \in Workers : Called(w, "list_websites")
    /\ \E w \in Workers : Called(w, "list_alerts") /\ Len(BodyAt(w)) = N
    /\ FAKE_ALERTS[2].created_at > FAKE_ALERTS[1].created_at - 7

(* C9 as stated: with a negative limit ListAlerts does not fail with a    *)
(* validation error and returns entries taken from the end of the alert   *)
(* sequence.                                                               *)
C9_NegativeLimitTakesFromEnd ==
    \A w \in Workers :
        (Called(w, "list_alerts") /\ LimitAt(w) < 0) =>
            /\ worker[w].resp.status = 200
            /\ BodyAt(w) = SubSeq(FAKE_ALERTS, N - Len(BodyAt(w)) + 1, N)

(* C9 amended: with a negative limit ListAlerts does not fail with a      *)
(* validation error and returns the alert sequence with its last |limit|  *)
(* entries dropped from the end.                                           *)
C9_NegativeLimitDropsFromEnd ==
    \A w \in Workers :
        (Called(w, "list_alerts") /\ LimitAt(w) < 0) =>
            /\ worker[w].resp.status = 200
            /\ BodyAt(w) = SubSeq(FAKE_ALERTS, 1, Max(0, N - (0 - LimitAt(w))))

C9_Witness ==
    \E w \in Workers :
        /\ Called(w, "list_alerts")
        /\ LimitAt(w) = -1
        /\ Len(BodyAt(w)) = N - 1

(* C10: for every integer limit ListAlerts never fails and returns a      *)
(* prefix of the alert sequence; for limit < 0 it has max(0, N + limit)   *)
(* entries, and a_1 is the first element of every result that is not      *)
(* empty.                                                                  *)
C10_AlwaysPrefix ==
    \A w \in Workers :
        Called(w, "list_alerts") =>
            /\ worker[w].resp.status = 200
            /\ IsPrefix(BodyAt(w), FAKE_ALERTS)
            /\ LimitAt(w) < 0 => Len(BodyAt(w)) = Max(0, N + LimitAt(w))
            /\ BodyAt(w) # <<>> => BodyAt(w)[1].id = "a_1"

C10_Witness ==
    \E w, v \in Workers :
        /\ Called(w, "list_alerts") /\ LimitAt(w) < 0 /\ BodyAt(w) # <<>>
        /\ Called(v, "list_alerts") /\ LimitAt(v) < 0 - N /\ BodyAt(v) = <<>>

====
